---- MODULE Spec2Model ----
(***************************************************************************)
(* md-to-anki-converter.py: Markdown notes to Anki cards.                  *)
(*                                                                         *)
(* Text is a sequence of one-character strings.  Offsets into a text are   *)
(* Python's: 0-based, -1 for "not found"; Slice(s, lo, hi) is s[lo:hi].    *)
(***************************************************************************)
EXTENDS Integers, Sequences, FiniteSets, TLC

\* ------------------------------------------------------------------ text

NL == "\n"

\* the backtick character (a string of the module cannot hold one)
BT == "BT"

\* str.strip() and the regex class \s, over the characters of the model
IsSpace(c) == c \in {" ", "\n", "\t"}

\* the regex class \w
WordChars ==
  {"a","b","c","d","e","f","g","h","i","j","k","l","m","n","o","p","q","r","s",
   "t","u","v","w","x","y","z","A","B","C","D","E","F","G","H","I","J","K","L",
   "M","N","O","P","Q","R","S","T","U","V","W","X","Y","Z","0","1","2","3","4",
   "5","6","7","8","9","_"}

IsWord(c) == c \in WordChars

\* s[lo:hi] for 0 <= lo, hi
Slice(s, lo, hi) == SubSeq(s, lo + 1, IF hi > Len(s) THEN Len(s) ELSE hi)

\* s[lo:]
SliceFrom(s, lo) == SubSeq(s, lo + 1, Len(s))

\* whether sub occurs in s at offset i
MatchAt(s, sub, i) ==
  /\ i >= 0
  /\ i + Len(sub) <= Len(s)
  /\ \A k \in 1..Len(sub) : s[i + k] = sub[k]

\* s.startswith(p)
StartsWith(s, p) == MatchAt(s, p, 0)

RECURSIVE FindFrom(_, _, _)
\* s.find(sub, i): the least offset >= i where sub occurs, else -1
FindFrom(s, sub, i) ==
  IF i + Len(sub) > Len(s) THEN -1
  ELSE IF MatchAt(s, sub, i) THEN i
  ELSE FindFrom(s, sub, i + 1)

\* s.find(sub)
Find(s, sub) == FindFrom(s, sub, 0)

RECURSIVE RFindDown(_, _, _)
RFindDown(s, sub, i) ==
  IF i < 0 THEN -1
  ELSE IF MatchAt(s, sub, i) THEN i
  ELSE RFindDown(s, sub, i - 1)

\* s.rfind(sub, 0, hi): the greatest offset where sub occurs within s[0:hi]
RFind(s, sub, hi) ==
  RFindDown(s, sub, (IF hi > Len(s) THEN Len(s) ELSE hi) - Len(sub))

\* sub in s
Contains(s, sub) == Find(s, sub) # -1

RECURSIVE SkipSpace(_, _)
\* the offset of the first non-space character at or after offset i
SkipSpace(s, i) ==
  IF i < Len(s) /\ IsSpace(s[i + 1]) THEN SkipSpace(s, i + 1) ELSE i

RECURSIVE SkipSpaceBack(_, _)
\* the end offset left after dropping the spaces that end s[0:j]
SkipSpaceBack(s, j) ==
  IF j > 0 /\ IsSpace(s[j]) THEN SkipSpaceBack(s, j - 1) ELSE j

\* s.strip()
Strip(s) ==
  LET lo == SkipSpace(s, 0)
  IN  IF lo >= Len(s) THEN <<>> ELSE Slice(s, lo, SkipSpaceBack(s, Len(s)))

RECURSIVE SplitOn(_, _, _)
SplitOn(s, sep, from) ==
  LET k == FindFrom(s, sep, from)
  IN  IF k = -1 THEN <<SliceFrom(s, from)>>
      ELSE <<Slice(s, from, k)>> \o SplitOn(s, sep, k + Len(sep))

\* s.split(sep)
Split(s, sep) == SplitOn(s, sep, 0)

RECURSIVE Join(_, _)
\* sep.join(parts)
Join(parts, sep) ==
  IF parts = <<>> THEN <<>>
  ELSE IF Len(parts) = 1 THEN parts[1]
  ELSE parts[1] \o sep \o Join(Tail(parts), sep)

RECURSIVE Digits(_)
Digits(n) ==
  LET d == <<"0","1","2","3","4","5","6","7","8","9">>
  IN  IF n < 10 THEN <<d[n + 1]>> ELSE Digits(n \div 10) \o <<d[(n % 10) + 1]>>

\* str(n) for n >= 0, as an f-string formats count
Str(n) == Digits(n)

\* ------------------------------------------------- parse_markdown_h2_sections

\* (?m)^ at offset i
AtLineStart(s, i) == i = 0 \/ s[i] = NL

\* (?m)$ at offset i
AtLineEnd(s, i) == i = Len(s) \/ s[i + 1] = NL

RECURSIVE LineEnd(_, _)
\* the offset of the end of the line holding offset i
LineEnd(s, i) == IF AtLineEnd(s, i) THEN i ELSE LineEnd(s, i + 1)

\* whether (?m)^##\s+ matches at offset i
H2PrefixAt(s, i) ==
  /\ AtLineStart(s, i)
  /\ MatchAt(s, <<"#", "#">>, i)
  /\ i + 2 < Len(s)
  /\ IsSpace(s[i + 3])

\* the match of (?m)^##\s+(.*?)$ at offset i: \s+ takes the whole run of
\* spaces (line breaks included), (.*?) the rest of the line it stops on
H2Match(s, i) ==
  LET g == SkipSpace(s, i + 2)
      e == LineEnd(s, g)
  IN  [start |-> i, group |-> Slice(s, g, e), end |-> e]

RECURSIVE H2SplitFrom(_, _, _)
\* re.split: the text before each match and the match"s group, then the rest
H2SplitFrom(s, last, i) ==
  IF i > Len(s) THEN <<SliceFrom(s, last)>>
  ELSE IF H2PrefixAt(s, i)
       THEN LET m == H2Match(s, i)
            IN  <<Slice(s, last, m.start), m.group>> \o H2SplitFrom(s, m.end, m.end)
       ELSE H2SplitFrom(s, last, i + 1)

\* re.split(r/(?m)^##\s+(.*?)$/, md_content)
H2Split(s) == H2SplitFrom(s, 0, 0)

RECURSIVE PairUp(_, _)
\* for i in range(0, len(sections), 2): if i + 1 < len(sections): append
PairUp(sections, i) ==
  IF i + 1 < Len(sections)
  THEN <<<<Strip(sections[i + 1]), Strip(sections[i + 2])>>>> \o PairUp(sections, i + 2)
  ELSE <<>>

\* sections.pop(0) when the text before the first header strips to nothing
DropBlankHead(sections) ==
  IF Strip(sections[1]) = <<>> THEN Tail(sections) ELSE sections

parse_markdown_h2_sections(md_content) ==
  PairUp(DropBlankHead(H2Split(md_content)), 0)

\* ----------------------------------------------- parse_markdown_bullet_points

\* line.startswith("- ") or line.startswith("* ")
IsMainBullet(line) == StartsWith(line, <<"-", " ">>) \/ StartsWith(line, <<"*", " ">>)

\* line.startswith("  - ") or line.startswith("  * ")
IsSubBullet(line) ==
  \/ StartsWith(line, <<" ", " ", "-", " ">>)
  \/ StartsWith(line, <<" ", " ", "*", " ">>)

\* if current_question and current_answer: cards.append(...)
Flush(st) ==
  IF st.current_question # <<>> /\ st.current_answer # <<>>
  THEN Append(st.cards, <<st.current_question, Join(st.current_answer, <<NL>>)>>)
  ELSE st.cards

\* one pass of the loop body; current_question None and "" are both falsy and
\* are both the empty text here
BulletStep(st, rawline) ==
  LET line == Strip(rawline)
  IN  IF line = <<>> THEN st
      ELSE IF IsMainBullet(line)
           THEN [cards |-> Flush(st),
                 current_question |-> Strip(SliceFrom(line, 2)),
                 current_answer |-> <<>>]
      ELSE IF IsSubBullet(line)
           THEN IF st.current_question # <<>>
                THEN [st EXCEPT !.current_answer = Append(@, Strip(SliceFrom(line, 4)))]
                ELSE st
      ELSE st

RECURSIVE BulletLoop(_, _, _)
BulletLoop(st, lines, i) ==
  IF i > Len(lines) THEN st ELSE BulletLoop(BulletStep(st, lines[i]), lines, i + 1)

parse_markdown_bullet_points(md_content) ==
  Flush(BulletLoop([cards |-> <<>>, current_question |-> <<>>, current_answer |-> <<>>],
                   Split(md_content, <<NL>>), 1))

\* ------------------------------------------------- parse_markdown_code_blocks

Fence == <<BT, BT, BT>>

BlankLine == <<NL, NL>>

QuestionHead == <<"W", "h", "a", "t", " ", "d", "o", "e", "s", " ", "t", "h", "i", "s", " ">>

QuestionMid == <<" ", "c", "o", "d", "e", " ", "d", "o", "?", NL, BT, BT, BT>>

FenceTail == <<NL, BT, BT, BT>>

RECURSIVE SkipWord(_, _)
\* the offset of the first non-word character at or after offset i
SkipWord(s, i) ==
  IF i < Len(s) /\ IsWord(s[i + 1]) THEN SkipWord(s, i + 1) ELSE i

\* whether <fence>\w+\n matches at offset i
FenceOpenAt(s, i) ==
  /\ MatchAt(s, Fence, i)
  /\ SkipWord(s, i + 3) > i + 3
  /\ MatchAt(s, <<NL>>, SkipWord(s, i + 3))

\* whether <fence>(\w+)\n(.*?)<fence> (DOTALL) matches at offset i
CodeBlockAt(s, i) ==
  FenceOpenAt(s, i) /\ FindFrom(s, Fence, SkipWord(s, i + 3) + 1) # -1

\* its match: the non-greedy body ends at the first closing fence
CodeBlockMatch(s, i) ==
  LET w == SkipWord(s, i + 3)
      close == FindFrom(s, Fence, w + 1)
  IN  [start |-> i, lang |-> Slice(s, i + 3, w), code |-> Slice(s, w + 1, close),
       end |-> close + 3]

RECURSIVE CodeBlocksFrom(_, _)
\* re.findall: the leftmost matches, each search resuming where the last ended
CodeBlocksFrom(s, i) ==
  IF i > Len(s) THEN <<>>
  ELSE IF CodeBlockAt(s, i)
       THEN LET m == CodeBlockMatch(s, i) IN <<m>> \o CodeBlocksFrom(s, m.end)
       ELSE CodeBlocksFrom(s, i + 1)

\* re.findall(r/<fence>(\w+)\n(.*?)<fence>/, md_content, re.DOTALL)
CodeBlocks(s) == CodeBlocksFrom(s, 0)

\* f"What does this {lang} code do?\n<fence>{lang}\n{code.strip()}\n<fence>"
Question(lang, code) ==
  QuestionHead \o lang \o QuestionMid \o lang \o <<NL>> \o Strip(code) \o FenceTail

\* the lookup taking the last place instead of the first
BlockPositionLast(md_content, lang, code) ==
  RFind(md_content, Fence \o lang \o <<NL>> \o code, Len(md_content))

\* md_content.find(f"<fence>{lang}\n{code}")
BlockPosition(md_content, lang, code) ==
  Find(md_content, Fence \o lang \o <<NL>> \o code)

\* the cards (none or one) of one block: the loop body
CodeCard(md_content, lang, code) ==
  LET block_position == BlockPosition(md_content, lang, code)
      start_of_paragraph == RFind(md_content, BlankLine, block_position)
      context == Strip(Slice(md_content, start_of_paragraph, block_position))
  IN  IF start_of_paragraph # -1 /\ context # <<>> /\ ~StartsWith(context, Fence)
      THEN <<<<Question(lang, code), context>>>>
      ELSE <<>>

RECURSIVE CodeLoop(_, _, _)
CodeLoop(md_content, blocks, i) ==
  IF i > Len(blocks) THEN <<>>
  ELSE CodeCard(md_content, blocks[i].lang, blocks[i].code)
         \o CodeLoop(md_content, blocks, i + 1)

parse_markdown_code_blocks(md_content) ==
  CodeLoop(md_content, CodeBlocks(md_content), 1)

\* --------------------------------------------------------- create_cloze_cards

Bold == <<"*", "*">>

Tick == <<BT>>

ClozeOpen == <<"{", "{", "c">>

ClozeSep == <<":", ":">>

ClozeClose == <<"}", "}">>

\* len(paragraph) < 20
MinParagraphLen == 20

RECURSIVE LastNewline(_, _, _)
\* the greatest offset in lo..hi-1 holding a line break, else -1
LastNewline(s, lo, hi) ==
  IF hi <= lo THEN -1
  ELSE IF s[hi] = NL THEN hi - 1
  ELSE LastNewline(s, lo, hi - 1)

\* the end of the match of \n\s*\n at offset i, else -1: \s* takes the run of
\* spaces and gives back up to the run"s last line break
ParaSepEnd(s, i) ==
  IF ~MatchAt(s, <<NL>>, i) THEN -1
  ELSE LET j == LastNewline(s, i + 1, SkipSpace(s, i + 1))
       IN  IF j = -1 THEN -1 ELSE j + 1

RECURSIVE ParagraphsFrom(_, _, _)
ParagraphsFrom(s, last, i) ==
  IF i >= Len(s) THEN <<SliceFrom(s, last)>>
  ELSE LET e == ParaSepEnd(s, i)
       IN  IF e # -1 THEN <<Slice(s, last, i)>> \o ParagraphsFrom(s, e, e)
           ELSE ParagraphsFrom(s, last, i + 1)

\* re.split(r/\n\s*\n/, md_content)
Paragraphs(s) == ParagraphsFrom(s, 0, 0)

\* the offset where the delimiter closes a span opened before offset from,
\* else -1: (.*?) crosses no line break
SpanClose(p, delim, from) ==
  LET q == FindFrom(p, delim, from)
  IN  IF q # -1 /\ ~Contains(Slice(p, from, q), <<NL>>) THEN q ELSE -1

\* the match of \*\*(.*?)\*\*|<tick>(.*?)<tick> at offset i (end = -1: none); the two
\* groups, the one that took no part being ""
HighlightAt(p, i) ==
  IF MatchAt(p, Bold, i) /\ SpanClose(p, Bold, i + 2) # -1
  THEN LET q == SpanClose(p, Bold, i + 2)
       IN  [groups |-> <<Slice(p, i + 2, q), <<>>>>, start |-> i, end |-> q + 2]
  ELSE IF MatchAt(p, Tick, i) /\ SpanClose(p, Tick, i + 1) # -1
  THEN LET q == SpanClose(p, Tick, i + 1)
       IN  [groups |-> <<<<>>, Slice(p, i + 1, q)>>, start |-> i, end |-> q + 1]
  ELSE [groups |-> <<>>, start |-> i, end |-> -1]

RECURSIVE HighlightsFrom(_, _)
HighlightsFrom(p, i) ==
  IF i >= Len(p) THEN <<>>
  ELSE LET m == HighlightAt(p, i)
       IN  IF m.end # -1 THEN <<m>> \o HighlightsFrom(p, m.end)
           ELSE HighlightsFrom(p, i + 1)

\* re.findall(r/\*\*(.*?)\*\*|<tick>(.*?)<tick>/, paragraph), with each match"s place
Highlights(p) == HighlightsFrom(p, 0)

\* f"{{{{c{count}::{highlighted_text}}}}}"
ClozeMarker(count, highlighted_text) ==
  ClozeOpen \o Str(count) \o ClozeSep \o highlighted_text \o ClozeClose

\* re.sub(re.escape-d literal, repl, text, 1); the texts of the model hold no
\* backslash, which re.sub would expand in repl
ReplaceFirst(text, pattern, repl) ==
  LET k == Find(text, pattern)
  IN  IF k = -1 THEN text
      ELSE Slice(text, 0, k) \o repl \o SliceFrom(text, k + Len(pattern))

\* one pass of "for highlight in highlights"; next(h for h in highlight if h)
\* raises StopIteration when both groups are ""
ClozeStep(st, highlight) ==
  IF highlight[1] = <<>> /\ highlight[2] = <<>>
  THEN [st EXCEPT !.raised = TRUE]
  ELSE LET highlighted_text == IF highlight[1] # <<>> THEN highlight[1] ELSE highlight[2]
           bold == Bold \o highlighted_text \o Bold
           pattern == IF Contains(st.cloze_text, bold) THEN bold
                      ELSE Tick \o highlighted_text \o Tick
       IN  [raised |-> FALSE,
            cloze_text |-> ReplaceFirst(st.cloze_text, pattern,
                                        ClozeMarker(st.count, highlighted_text)),
            count |-> st.count + 1]

RECURSIVE ClozeSteps(_, _, _)
ClozeSteps(st, highlights, i) ==
  IF st.raised \/ i > Len(highlights) THEN st
  ELSE ClozeSteps(ClozeStep(st, highlights[i].groups), highlights, i + 1)

\* the rewriting of one paragraph that is neither a header nor short
ClozeText(paragraph) ==
  ClozeSteps([raised |-> FALSE, cloze_text |-> paragraph, count |-> 1],
             Highlights(paragraph), 1)

\* if paragraph.startswith("#/) or len(paragraph) < 20: continue
SkipParagraph(paragraph) ==
  StartsWith(paragraph, <<"#">>) \/ Len(paragraph) < MinParagraphLen

\* one pass of "for paragraph in paragraphs"
ClozeParagraph(acc, paragraph) ==
  IF SkipParagraph(paragraph) \/ Highlights(paragraph) = <<>> THEN acc
  ELSE LET st == ClozeText(paragraph)
       IN  IF st.raised THEN [acc EXCEPT !.raised = TRUE]
           ELSE IF Contains(st.cloze_text, ClozeOpen)
                THEN [acc EXCEPT !.cards = Append(@, <<st.cloze_text, <<>>>>)]
                ELSE acc

RECURSIVE ClozeLoop(_, _, _)
ClozeLoop(acc, paragraphs, i) ==
  IF acc.raised \/ i > Len(paragraphs) THEN acc
  ELSE ClozeLoop(ClozeParagraph(acc, paragraphs[i]), paragraphs, i + 1)

\* the cards, or raised = TRUE when the call ends in StopIteration
create_cloze_cards(md_content) ==
  ClozeLoop([raised |-> FALSE, cards |-> <<>>], Paragraphs(md_content), 1)

\* --------------------------------------------------------- detect_card_format

\* re.search(r/(?m)^##\s+/, md_content)
HasH2(s) == \E i \in 0..Len(s) : H2PrefixAt(s, i)

\* re.search(r/(?m)^- |^\* /, md_content)
HasMainBullet(s) ==
  \E i \in 0..Len(s) :
    AtLineStart(s, i) /\ (MatchAt(s, <<"-", " ">>, i) \/ MatchAt(s, <<"*", " ">>, i))

\* re.search(r/(?m)^  - |^  \* /, md_content)
HasSubBullet(s) ==
  \E i \in 0..Len(s) :
    AtLineStart(s, i) /\ (\/ MatchAt(s, <<" ", " ", "-", " ">>, i)
                          \/ MatchAt(s, <<" ", " ", "*", " ">>, i))

\* re.search(r/<fence>\w+\n/, md_content)
HasFenceOpen(s) == \E i \in 0..Len(s) : FenceOpenAt(s, i)

\* the cascade with the bullet test put first
detect_bullets_first(md_content) ==
  IF HasMainBullet(md_content) /\ HasSubBullet(md_content) THEN "bullets"
  ELSE IF HasH2(md_content) THEN "sections"
  ELSE IF HasFenceOpen(md_content) THEN "code"
  ELSE "cloze"

detect_card_format(md_content) ==
  IF HasH2(md_content) THEN "sections"
  ELSE IF HasMainBullet(md_content) /\ HasSubBullet(md_content) THEN "bullets"
  ELSE IF HasFenceOpen(md_content) THEN "code"
  ELSE "cloze"

\* --------------------------------------------------------- convert_md_to_anki

\* (cards, format_method), or raised = TRUE when the extractor raised
convert_md_to_anki(md_content, cloze_mode) ==
  LET format_method == IF cloze_mode THEN "cloze" ELSE detect_card_format(md_content)
  IN  IF format_method = "sections"
      THEN [raised |-> FALSE, cards |-> parse_markdown_h2_sections(md_content),
            format_method |-> format_method]
      ELSE IF format_method = "bullets"
      THEN [raised |-> FALSE, cards |-> parse_markdown_bullet_points(md_content),
            format_method |-> format_method]
      ELSE IF format_method = "code"
      THEN [raised |-> FALSE, cards |-> parse_markdown_code_blocks(md_content),
            format_method |-> format_method]
      ELSE LET r == create_cloze_cards(md_content)
           IN  [raised |-> r.raised, cards |-> r.cards, format_method |-> format_method]

\* ---------------------------------------------------------------- documents

\* the documents the description of the converter works through
BulletExample ==
  <<"-", " ", "Q", "1", NL, " ", " ", "-", " ", "A", "1", NL, " ", " ", "-",
    " ", "A", "2", NL, "-", " ", "Q", "2">>

SectionExample ==
  <<"#", "#", " ", "A", NL, "b", "o", "d", "y", "1", NL, "#", "#", " ", "B",
    NL, "b", "o", "d", "y", "2">>

ClozeExample ==
  <<"T", "h", "e", " ", "*", "*", "m", "i", "t", "o", "c", "h", "o", "n",
    "d", "r", "i", "a", "*", "*", " ", "i", "s", " ", "t", "h", "e", " ",
    "*", "*", "p", "o", "w", "e", "r", "h", "o", "u", "s", "e", "*", "*">>

CodeExample ==
  <<"I", "n", "t", "r", "o", NL, NL, "I", "t", " ", "a", "d", "d", "s", ".",
    NL, NL, BT, BT, BT, "p", "y", NL, "x", " ", "+", " ", "y", NL, BT, BT,
    BT>>

ExampleDocs == {BulletExample, SectionExample, ClozeExample, CodeExample}

\* pieces of header and body text
SectionPieces ==
  {<<"#", "#", " ">>,
   <<"A">>,
   <<NL>>,
   <<" ">>}

\* pieces of bullet lists
BulletPieces ==
  {<<"-", " ", "q">>,
   <<NL>>,
   <<" ", " ", "-", " ", "a">>,
   <<NL, " ", " ", "*", " ", "b">>}

\* the signals detect_card_format looks for
DetectPieces ==
  {<<"#", "#">>,
   <<" ">>,
   <<NL>>,
   <<"-", " ", NL>>,
   <<" ", " ", "*", " ", NL>>,
   <<BT, BT, BT, "a", NL>>}

\* fenced blocks, blank lines and paragraph text
CodePieces ==
  {<<BT, BT, BT, "a", NL, "x", BT, BT, BT>>,
   <<BT, BT, BT, "a", NL, "x", "y", BT, BT, BT>>,
   <<NL, NL, "q", NL>>,
   <<NL, NL>>,
   <<"p">>}

\* a 15-character filler, highlighted spans, delimiters, a blank line
ClozePieces ==
  {<<"a", "a", "a", "a", "a", "a", "a", "a", "a", "a", "a", "a", "a", "a", " ">>,
   <<"*", "*", "x", "*", "*">>,
   <<BT, "x", BT>>,
   <<"*", "*">>,
   <<NL, NL>>}


\* the longest documents built from each family of pieces
MaxSectionPieces == 4

MaxBulletPieces == 4

MaxDetectPieces == 4

MaxCodePieces == 4

MaxClozePieces == 4

RECURSIVE Concats(_, _)
\* the texts made of at most n pieces of V
Concats(V, n) ==
  IF n = 0 THEN {<<>>}
  ELSE LET shorter == Concats(V, n - 1)
       IN  shorter \cup {d \o v : d \in shorter, v \in V}

\* the contents the input file is drawn from
Docs ==
  ExampleDocs
    \cup Concats(SectionPieces, MaxSectionPieces)
    \cup Concats(BulletPieces, MaxBulletPieces)
    \cup Concats(DetectPieces, MaxDetectPieces)
    \cup Concats(CodePieces, MaxCodePieces)
    \cup Concats(ClozePieces, MaxClozePieces)

\* the values of --tags: the default and a tag
TagChoices == {<<>>, <<"b", "i", "o">>}

\* ------------------------------------------------------------------ state

VARIABLES
  md_content,       \* the text of the input file
  cloze,            \* args.cloze
  tags,             \* args.tags
  pc,               \* where main is, or which function was called
  cards,            \* the extracted (front, back) pairs
  detected_format,  \* the format tag
  card_type,        \* "Cloze" or "Basic"
  raised,           \* whether an exception left the extractor
  outfile,          \* the output file: whether it exists, and its records
  status            \* the exit status, -1 while running

vars ==
  <<md_content, cloze, tags, pc, cards, detected_format, card_type, raised,
    outfile, status>>

NoFile == [exists |-> FALSE, rows |-> <<>>]

Init ==
  /\ md_content \in Docs
  /\ cloze \in BOOLEAN
  /\ tags \in TagChoices
  /\ pc = "start"
  /\ cards = <<>>
  /\ detected_format = "none"
  /\ card_type = "none"
  /\ raised = FALSE
  /\ outfile = NoFile
  /\ status = -1

\* ------------------------------------------------------------------- main

\* with open(args.input) as f: md_content = f.read()
ReadInput ==
  /\ pc = "start"
  /\ pc' = "convert"
  /\ UNCHANGED <<md_content, cloze, tags, cards, detected_format, card_type,
                 raised, outfile, status>>

\* FileNotFoundError or another exception while reading: return 1
ReadError ==
  /\ pc = "start"
  /\ pc' = "exit"
  /\ status' = 1
  /\ UNCHANGED <<md_content, cloze, tags, cards, detected_format, card_type,
                 raised, outfile>>

\* cards, detected_format = convert_md_to_anki(...), outside any try: an
\* exception ends the process with the interpreter's status 1
Convert ==
  /\ pc = "convert"
  /\ LET r == convert_md_to_anki(md_content, cloze)
     IN  IF r.raised
         THEN /\ raised' = TRUE
              /\ pc' = "exit"
              /\ status' = 1
              /\ UNCHANGED <<cards, detected_format>>
         ELSE /\ cards' = r.cards
              /\ detected_format' = r.format_method
              /\ pc' = "open"
              /\ UNCHANGED <<raised, status>>
  /\ UNCHANGED <<md_content, cloze, tags, card_type, outfile>>

\* card_type = "Cloze" if args.cloze or detected_format == "cloze" else "Basic"
CardType(cloze_mode, format) ==
  IF cloze_mode \/ format = "cloze" THEN "Cloze" ELSE "Basic"

\* open(output_file, "w") creates the file or empties it
OpenOutput ==
  /\ pc = "open"
  /\ card_type' = CardType(cloze, detected_format)
  /\ outfile' = [exists |-> TRUE, rows |-> <<>>]
  /\ pc' = "write"
  /\ UNCHANGED <<md_content, cloze, tags, cards, detected_format, raised, status>>

\* open raises: except Exception: return 1
OpenError ==
  /\ pc = "open"
  /\ card_type' = CardType(cloze, detected_format)
  /\ pc' = "exit"
  /\ status' = 1
  /\ UNCHANGED <<md_content, cloze, tags, cards, detected_format, raised, outfile>>

\* the writer without the Cloze branch
RowAlwaysBasic(card, type, tag_list) == <<card[1], card[2], tag_list>>

\* writer.writerow([front, tags]) or writer.writerow([front, back, tags])
Row(card, type, tag_list) ==
  IF type = "Cloze" THEN <<card[1], tag_list>> ELSE <<card[1], card[2], tag_list>>

\* one pass of the loop over cards
WriteRow ==
  /\ pc = "write"
  /\ Len(outfile.rows) < Len(cards)
  /\ outfile' = [outfile EXCEPT
                   !.rows = Append(@, Row(cards[Len(@) + 1], card_type, tags))]
  /\ UNCHANGED <<md_content, cloze, tags, pc, cards, detected_format, card_type,
                 raised, status>>

\* a write (or the closing flush) raises: the with block closes the file as
\* it is, and except Exception: return 1
WriteError ==
  /\ pc = "write"
  /\ pc' = "exit"
  /\ status' = 1
  /\ UNCHANGED <<md_content, cloze, tags, cards, detected_format, card_type,
                 raised, outfile>>

\* the loop ends, the file is closed, the summary printed: return 0
Finish ==
  /\ pc = "write"
  /\ Len(outfile.rows) = Len(cards)
  /\ pc' = "exit"
  /\ status' = 0
  /\ UNCHANGED <<md_content, cloze, tags, cards, detected_format, card_type,
                 raised, outfile>>

Next ==
  \/ ReadInput
  \/ ReadError
  \/ Convert
  \/ OpenOutput
  \/ OpenError
  \/ WriteRow
  \/ WriteError
  \/ Finish

Spec == Init /\ [][Next]_vars

\* ------------------------------------------- the functions, called directly

ExtractInit ==
  /\ md_content \in Docs
  /\ cloze = FALSE
  /\ tags = <<>>
  /\ pc = "call"
  /\ cards = <<>>
  /\ detected_format = "none"
  /\ card_type = "none"
  /\ raised = FALSE
  /\ outfile = NoFile
  /\ status = -1

CallSections ==
  /\ pc = "call"
  /\ cards' = parse_markdown_h2_sections(md_content)
  /\ pc' = "sections"
  /\ UNCHANGED <<md_content, cloze, tags, detected_format, card_type, raised,
                 outfile, status>>

CallBullets ==
  /\ pc = "call"
  /\ cards' = parse_markdown_bullet_points(md_content)
  /\ pc' = "bullets"
  /\ UNCHANGED <<md_content, cloze, tags, detected_format, card_type, raised,
                 outfile, status>>

CallCode ==
  /\ pc = "call"
  /\ cards' = parse_markdown_code_blocks(md_content)
  /\ pc' = "code"
  /\ UNCHANGED <<md_content, cloze, tags, detected_format, card_type, raised,
                 outfile, status>>

CallCloze ==
  /\ pc = "call"
  /\ LET r == create_cloze_cards(md_content)
     IN  cards' = r.cards /\ raised' = r.raised
  /\ pc' = "cloze"
  /\ UNCHANGED <<md_content, cloze, tags, detected_format, card_type, outfile,
                 status>>

CallDetect ==
  /\ pc = "call"
  /\ detected_format' = detect_card_format(md_content)
  /\ pc' = "detect"
  /\ UNCHANGED <<md_content, cloze, tags, cards, card_type, raised, outfile,
                 status>>

\* convert_md_to_anki(md_content, cloze_mode=cloze)
CallConvert ==
  /\ pc = "call"
  /\ \E cloze_mode \in BOOLEAN :
       LET r == convert_md_to_anki(md_content, cloze_mode)
       IN  /\ cloze' = cloze_mode
           /\ raised' = r.raised
           /\ cards' = r.cards
           /\ detected_format' = r.format_method
  /\ pc' = "converted"
  /\ UNCHANGED <<md_content, tags, card_type, outfile, status>>

ExtractNext ==
  \/ CallSections
  \/ CallBullets
  \/ CallCode
  \/ CallCloze
  \/ CallDetect
  \/ CallConvert

ExtractSpec == ExtractInit /\ [][ExtractNext]_vars

\* ================================================================== claims

\* ---- C1: bullet extraction

RECURSIVE AnswersFrom(_, _)
\* the trimmed texts of the sub-bullet lines from line k up to the next
\* top-level bullet line, the lines taken as they stand in the document
AnswersFrom(lines, k) ==
  IF k > Len(lines) \/ IsMainBullet(lines[k]) THEN <<>>
  ELSE IF IsSubBullet(lines[k])
       THEN <<Strip(SliceFrom(lines[k], 4))>> \o AnswersFrom(lines, k + 1)
       ELSE AnswersFrom(lines, k + 1)

RECURSIVE QuestionCardsFrom(_, _)
\* one card for each top-level bullet line that has sub-bullets
QuestionCardsFrom(lines, k) ==
  IF k > Len(lines) THEN <<>>
  ELSE IF IsMainBullet(lines[k]) /\ AnswersFrom(lines, k + 1) # <<>>
       THEN <<<<Strip(SliceFrom(lines[k], 2)), Join(AnswersFrom(lines, k + 1), <<NL>>)>>>>
              \o QuestionCardsFrom(lines, k + 1)
       ELSE QuestionCardsFrom(lines, k + 1)

\* every bullet line of the document has a text
NoEmptyBullet(lines) ==
  \A k \in 1..Len(lines) :
    /\ IsMainBullet(lines[k]) => Strip(SliceFrom(lines[k], 2)) # <<>>
    /\ IsSubBullet(lines[k]) => Strip(SliceFrom(lines[k], 4)) # <<>>

\* C1: parse_markdown_bullet_points emits exactly one card for each top-level
\* bullet line followed by two-space-indented bullet lines, front the question
\* text and back the trimmed sub-bullet texts joined by line breaks, and no
\* card for a top-level bullet without sub-bullets; "- Q1\n  - A1\n  - A2\n- Q2"
\* yields the one card ("Q1", "A1\nA2").  Stated for the documents whose
\* bullet lines all have a text.
C1_BulletCards ==
  LET lines == Split(md_content, <<NL>>)
  IN  pc = "bullets" /\ NoEmptyBullet(lines) => cards = QuestionCardsFrom(lines, 1)

\* ---- C2: section extraction

RECURSIVE HeadersFrom(_, _)
\* the matches of the level-2 header pattern, in source order
HeadersFrom(s, i) ==
  IF i > Len(s) THEN <<>>
  ELSE IF H2PrefixAt(s, i)
       THEN <<H2Match(s, i)>> \o HeadersFrom(s, H2Match(s, i).end)
       ELSE HeadersFrom(s, i + 1)

\* the card of the k-th header: its text, and the text up to the next header
SectionCard(s, hs, k) ==
  <<Strip(hs[k].group),
    Strip(Slice(s, hs[k].end, IF k < Len(hs) THEN hs[k + 1].start ELSE Len(s)))>>

\* C2: parse_markdown_h2_sections returns one card per level-2 header, in
\* source order, front the header text trimmed and back the trimmed text up
\* to the next header or the end; text before the first header is in no card.
C2_SectionCards ==
  pc = "sections" =>
    LET hs == HeadersFrom(md_content, 0)
    IN  cards = [k \in 1..Len(hs) |-> SectionCard(md_content, hs, k)]

\* ---- C3: extraction is total

\* C3: convert_md_to_anki and each of the four extractors return a card list
\* for every input and mode, without raising.
C3_ExtractionTotal == ~raised

\* ---- C4: no empty front

\* C4: no card an extractor returns has an empty front.
C4_FrontNeverEmpty ==
  pc \in {"sections", "bullets", "code", "cloze", "converted"} =>
    \A k \in 1..Len(cards) : cards[k][1] # <<>>

\* ---- C5: format detection

\* the lines of a document with the offset each starts at
LineStarts(s) == {0} \cup {i \in 1..Len(s) : s[i] = NL}

\* a line begins with ## followed by a whitespace character (the line break
\* that ends the line is one)
SomeLineH2(s) ==
  \E i \in LineStarts(s) :
    /\ i + 3 <= Len(s)
    /\ s[i + 1] = "#" /\ s[i + 2] = "#"
    /\ s[i + 3] \in {" ", "\t", NL}

\* a line starts with "- " or "* "
SomeLineMainBullet(s) ==
  \E i \in LineStarts(s) :
    i + 2 <= Len(s) /\ s[i + 1] \in {"-", "*"} /\ s[i + 2] = " "

\* a line starts with "  - " or "  * "
SomeLineSubBullet(s) ==
  \E i \in LineStarts(s) :
    /\ i + 4 <= Len(s)
    /\ s[i + 1] = " " /\ s[i + 2] = " "
    /\ s[i + 3] \in {"-", "*"} /\ s[i + 4] = " "

\* three backticks, then a word of n >= 1 characters, then a line break
SomeFenceWithWord(s) ==
  \E i \in 0..Len(s), n \in 1..Len(s) :
    /\ i + 3 + n + 1 <= Len(s)
    /\ \A k \in 1..3 : s[i + k] = BT
    /\ \A k \in 1..n : s[i + 3 + k] \in WordChars
    /\ s[i + 3 + n + 1] = NL

\* the tag the cascade of the description gives
CascadeTag(s) ==
  CASE SomeLineH2(s) -> "sections"
    [] ~SomeLineH2(s) /\ SomeLineMainBullet(s) /\ SomeLineSubBullet(s) -> "bullets"
    [] /\ ~SomeLineH2(s)
       /\ ~(SomeLineMainBullet(s) /\ SomeLineSubBullet(s))
       /\ SomeFenceWithWord(s) -> "code"
    [] OTHER -> "cloze"

\* C5: detect_card_format returns exactly one tag, by first match: sections
\* when a line begins with ## and whitespace, whatever else is present; else
\* bullets when a line starts with a top-level marker and a line starts with
\* an indented one; else code when a fence opens with a word and a line
\* break; else cloze.
C5_DetectCascade ==
  /\ pc = "detect" => detected_format = CascadeTag(md_content)
  /\ pc = "converted" /\ ~cloze => detected_format = CascadeTag(md_content)

\* sections is returned for a document that also holds both bullet signals
C5_Witness ==
  /\ pc = "detect"
  /\ detected_format = "sections"
  /\ SomeLineMainBullet(md_content)
  /\ SomeLineSubBullet(md_content)

\* ---- C6: cloze numbering

RECURSIVE MarkSpans(_, _, _, _)
\* p from offset last on, the k-th and later spans of hs each replaced where
\* it stands by the marker with its own index
MarkSpans(p, hs, k, last) ==
  IF k > Len(hs) THEN SliceFrom(p, last)
  ELSE LET g == hs[k].groups
           text == IF g[1] # <<>> THEN g[1] ELSE g[2]
       IN  Slice(p, last, hs[k].start)
             \o ClozeOpen \o Str(k) \o ClozeSep \o text \o ClozeClose
             \o MarkSpans(p, hs, k + 1, hs[k].end)

RECURSIVE MarkedParagraphs(_, _)
\* the card of each paragraph that is kept and holds a highlighted span
MarkedParagraphs(ps, k) ==
  IF k > Len(ps) THEN <<>>
  ELSE IF SkipParagraph(ps[k]) \/ Highlights(ps[k]) = <<>>
       THEN MarkedParagraphs(ps, k + 1)
       ELSE <<<<MarkSpans(ps[k], Highlights(ps[k]), 1, 0), <<>>>>>>
              \o MarkedParagraphs(ps, k + 1)

\* C6: in every cloze card the i-th highlighted span of the paragraph, bold
\* or backtick, is the one replaced by the marker with index i, where it
\* stands, so the indices read 1..k from left to right, also when a text is
\* highlighted twice or in both styles; the back is empty.
C6_ClozeNumbering ==
  pc = "cloze" /\ ~raised => cards = MarkedParagraphs(Paragraphs(md_content), 1)

\* ---- C7: code blocks and their explanatory paragraph

\* the paragraph that a blank line ending at offset pos closes: the text
\* between the blank line before it (or the start) and that blank line
ParagraphBefore(s, pos) ==
  LET b == RFind(s, BlankLine, pos - 2)
  IN  Strip(Slice(s, IF b = -1 THEN 0 ELSE b, pos - 2))

\* C7: a language-tagged fenced block preceded by an explanatory paragraph
\* that a blank line separates from it yields exactly one card, the front
\* starting with "What does this " and holding the fenced block, the back
\* that paragraph; a block at the very start of the document yields none.
C7_CodeCardFromParagraph ==
  pc = "code" /\ Len(CodeBlocks(md_content)) = 1 =>
    LET m == CodeBlocks(md_content)[1]
        para == ParagraphBefore(md_content, m.start)
    IN  /\ (/\ MatchAt(md_content, BlankLine, m.start - 2)
            /\ para # <<>>
            /\ ~StartsWith(para, Fence))
           => /\ Len(cards) = 1
              /\ StartsWith(cards[1][1], QuestionHead)
              /\ Contains(cards[1][1],
                          Fence \o m.lang \o <<NL>> \o Strip(m.code) \o FenceTail)
              /\ cards[1][2] = para
        /\ m.start = 0 => cards = <<>>

\* ---- C10: duplicate code blocks

\* the least offset where sub occurs in s
FirstOffset(s, sub) ==
  CHOOSE i \in 0..Len(s) :
    MatchAt(s, sub, i) /\ \A j \in 0..(i - 1) : ~MatchAt(s, sub, j)

\* the offsets at or before pos where a blank line ends
BlankLinesBefore(s, pos) == {b \in 0..(pos - 2) : MatchAt(s, BlankLine, b)}

\* the cards of a block whose context is looked up at offset pos: the text
\* from the nearest blank line before pos, when it is not blank and opens no
\* fence
CardWithContextAt(s, m, pos) ==
  IF BlankLinesBefore(s, pos) = {} THEN <<>>
  ELSE LET b == CHOOSE x \in BlankLinesBefore(s, pos) :
                  \A y \in BlankLinesBefore(s, pos) : y <= x
           context == Strip(Slice(s, b, pos))
       IN  IF context # <<>> /\ ~StartsWith(context, Fence)
           THEN <<<<Question(m.lang, m.code), context>>>>
           ELSE <<>>

RECURSIVE Flatten(_)
\* the lists of a list, one after the other
Flatten(lists) ==
  IF lists = <<>> THEN <<>> ELSE Head(lists) \o Flatten(Tail(lists))

\* the first place where the opening fence, tag and body of block k stand
TextOffset(s, blocks, k) ==
  FirstOffset(s, Fence \o blocks[k].lang \o <<NL>> \o blocks[k].code)

\* where the first fenced block with the tag and body of block k starts
FirstBlockOffset(s, blocks, k) ==
  LET j == CHOOSE x \in 1..k :
             /\ blocks[x].lang = blocks[k].lang /\ blocks[x].code = blocks[k].code
             /\ \A y \in 1..(x - 1) :
                  ~(blocks[y].lang = blocks[k].lang /\ blocks[y].code = blocks[k].code)
  IN  blocks[j].start

\* C10 as amended: every block is given the context that precedes the first
\* place in the document where its opening fence, tag and body stand as text
\* (which may lie in or at the end of an earlier, different block), so all
\* blocks with the same tag and body yield a card with that one back, or none
\* of them yields a card; the paragraphs before the later ones are not used.
C10_FirstTextOccurrence ==
  pc = "code" =>
    LET blocks == CodeBlocks(md_content)
    IN  cards = Flatten([k \in 1..Len(blocks) |->
                  CardWithContextAt(md_content, blocks[k],
                                    TextOffset(md_content, blocks, k))])

\* whether another fenced block has the tag and body of block k
HasTwin(blocks, k) ==
  \E x \in 1..Len(blocks) :
    x # k /\ blocks[x].lang = blocks[k].lang /\ blocks[x].code = blocks[k].code

\* C10 as stated: when a tag and body stand in more than one fenced block,
\* the context of each of those blocks is the one that precedes the first of
\* them, so each yields a card with that back, or none does when the first
\* has no qualifying context.
C10_FirstBlockOccurrence ==
  pc = "code" =>
    LET blocks == CodeBlocks(md_content)
    IN  cards = Flatten([k \in 1..Len(blocks) |->
                  CardWithContextAt(md_content, blocks[k],
                    IF HasTwin(blocks, k)
                    THEN FirstBlockOffset(md_content, blocks, k)
                    ELSE TextOffset(md_content, blocks, k))])

\* two blocks with the same tag and body both yield a card with the context
\* of the first, and the text before the second one is another
C10_Witness ==
  /\ pc = "code"
  /\ Len(cards) = 2
  /\ LET blocks == CodeBlocks(md_content)
     IN  /\ Len(blocks) = 2
         /\ blocks[1].lang = blocks[2].lang /\ blocks[1].code = blocks[2].code
         /\ cards[1][2] = cards[2][2]
         /\ CardWithContextAt(md_content, blocks[2], blocks[2].start) # <<>>
         /\ CardWithContextAt(md_content, blocks[2], blocks[2].start)[1][2] # cards[2][2]

\* ---- C8: the card writer and the card type

\* C8: write_cards_to_file writes one record per card, in list order and
\* with no header record, of 2 fields (front, tags) for Cloze and 3 fields
\* (front, back, tags) for Basic, the tags the same in every record; and the
\* card type is Cloze exactly when cloze mode was forced or the detected
\* format is cloze.
C8_WriterRecords ==
  /\ card_type # "none" =>
       /\ card_type \in {"Cloze", "Basic"}
       /\ card_type = "Cloze" <=> (cloze \/ detected_format = "cloze")
  /\ outfile.exists =>
       /\ Len(outfile.rows) <= Len(cards)
       /\ \A k \in 1..Len(outfile.rows) :
            /\ card_type = "Cloze" => outfile.rows[k] = <<cards[k][1], tags>>
            /\ card_type = "Basic" => outfile.rows[k] = <<cards[k][1], cards[k][2], tags>>
  /\ pc = "exit" /\ status = 0 => outfile.exists /\ Len(outfile.rows) = Len(cards)

\* a run that ends well after writing two Basic records with a tag
C8_Witness ==
  /\ pc = "exit"
  /\ status = 0
  /\ card_type = "Basic"
  /\ Len(outfile.rows) = 2
  /\ tags # <<>>

\* ---- C9: the write is all or nothing

\* C9: a run whose write step fails ends with a non-zero status and never
\* leaves the output file holding only some of the N rows; a run whose input
\* cannot be read ends non-zero and leaves the output file alone.
C9_AtomicWrite ==
  pc = "exit" =>
    /\ status # 0 => ~(outfile.exists /\ Len(outfile.rows) < Len(cards))
    /\ detected_format = "none" => status = 1 /\ outfile = NoFile

====
